---------------------------- MODULE Spec2Model ----------------------------
(***************************************************************************)
(* Model of src/domain_auditor.py: class dauditor, which fetches the SPF,  *)
(* DKIM and DMARC TXT records of a domain and validates each against a     *)
(* regular expression.                                                     *)
(*                                                                         *)
(* Text that the regular expressions look at (DNS answers, fetched         *)
(* records, matched spans) is a sequence of one-character strings.  Names  *)
(* (the target, the selectors, query names) and the diagnostics are TLA+   *)
(* strings.                                                                *)
(***************************************************************************)
EXTENDS Integers, Sequences, FiniteSets, TLC

(***************************************************************************)
(* Character classes of Python's re module (str patterns, ASCII inputs).   *)
(***************************************************************************)
Digit == {"0", "1", "2", "3", "4", "5", "6", "7", "8", "9"}

Lower == {"a", "b", "c", "d", "e", "f", "g", "h", "i", "j", "k", "l", "m",
          "n", "o", "p", "q", "r", "s", "t", "u", "v", "w", "x", "y", "z"}

Upper == {"A", "B", "C", "D", "E", "F", "G", "H", "I", "J", "K", "L", "M",
          "N", "O", "P", "Q", "R", "S", "T", "U", "V", "W", "X", "Y", "Z"}

\* \w
Word == Digit \cup Lower \cup Upper \cup {"_"}

\* \s
Space == {" ", "\t", "\n", "\r", "\f"}

(***************************************************************************)
(* Regular expressions as trees.                                           *)
(***************************************************************************)
Lit(cs) == [t |-> "lit", cs |-> cs]
Cls(S) == [t |-> "cls", set |-> S, neg |-> FALSE]
NCls(S) == [t |-> "cls", set |-> S, neg |-> TRUE]
Cat(rs) == [t |-> "cat", rs |-> rs]
Alt(rs) == [t |-> "alt", rs |-> rs]
\* r{lo,hi}, greedy; hi = -1 is "no upper limit"
Rep(r, lo, hi) == [t |-> "rep", r |-> r, lo |-> lo, hi |-> hi]
Opt(r) == Rep(r, 0, 1)
Star(r) == Rep(r, 0, -1)
Plus(r) == Rep(r, 1, -1)
\* (?=r)
Look(r) == [t |-> "look", r |-> r]
\* .
AnyChar == NCls({"\n"})

(***************************************************************************)
(* The backtracking matcher.  Ends(r, s, i) is the sequence of positions   *)
(* at which a match of r that starts at position i of s can end (the       *)
(* position of the first character after the match), in the order in which *)
(* Python's backtracking engine tries them: alternatives left to right,    *)
(* greedy repetitions longest first.                                       *)
(***************************************************************************)
RECURSIVE Ends(_, _, _), EndsCat(_, _, _, _), EndsThen(_, _, _, _, _, _),
          EndsAlt(_, _, _, _), EndsRep(_, _, _, _),
          EndsAgain(_, _, _, _, _, _, _)

\* whether the character c is in the class r
InClass(r, c) == (c \in r.set) # r.neg

\* the number of characters of s from position i on that are in the class r
Run(r, s, i) ==
    LET out == {j \in i..Len(s) : ~InClass(r, s[j])}
    IN  IF out = {} THEN Len(s) + 1 - i
        ELSE (CHOOSE j \in out : \A k \in out : j <= k) - i

\* a repetition of one character class needs no backtracking into its body:
\* it takes as many characters as it may, then one fewer, down to r.lo
EndsRun(r, s, i) ==
    LET run == Run(r.r, s, i)
        most == IF r.hi # -1 /\ r.hi < run THEN r.hi ELSE run
    IN  [k \in 1..(most - r.lo + 1) |-> i + most + 1 - k]

Ends(r, s, i) ==
    CASE r.t = "lit" ->
           IF i + Len(r.cs) - 1 <= Len(s)
              /\ SubSeq(s, i, i + Len(r.cs) - 1) = r.cs
           THEN <<i + Len(r.cs)>> ELSE <<>>
      [] r.t = "cls" ->
           IF i <= Len(s) /\ InClass(r, s[i]) THEN <<i + 1>> ELSE <<>>
      [] r.t = "cat" -> EndsCat(r.rs, 1, s, i)
      [] r.t = "alt" -> EndsAlt(r.rs, 1, s, i)
      [] r.t = "rep" -> IF r.r.t = "cls" THEN EndsRun(r, s, i)
                        ELSE EndsRep(r, s, i, 0)
      [] r.t = "look" -> IF Ends(r.r, s, i) # <<>> THEN <<i>> ELSE <<>>

\* rs[k], rs[k+1], ... one after the other, from position i
EndsCat(rs, k, s, i) ==
    IF k > Len(rs) THEN <<i>>
    ELSE LET js == Ends(rs[k], s, i) IN EndsThen(rs, k, s, js, 1, Len(js))

\* for each end js[lo], ..., js[hi] of rs[k], in this order: the ends of the
\* rest of the concatenation from there
EndsThen(rs, k, s, js, lo, hi) ==
    IF lo > hi THEN <<>>
    ELSE IF lo = hi THEN EndsCat(rs, k + 1, s, js[lo])
    ELSE LET mid == (lo + hi) \div 2
         IN  EndsThen(rs, k, s, js, lo, mid) \o EndsThen(rs, k, s, js, mid + 1, hi)

\* rs[k] | rs[k+1] | ...
EndsAlt(rs, k, s, i) ==
    IF k > Len(rs) THEN <<>>
    ELSE Ends(rs[k], s, i) \o EndsAlt(rs, k + 1, s, i)

\* r = x{lo,hi} after n iterations: first one more iteration, then stopping here
EndsRep(r, s, i, n) ==
    (IF r.hi = -1 \/ n < r.hi
     THEN LET js == Ends(r.r, s, i) IN EndsAgain(r, s, i, n, js, 1, Len(js))
     ELSE <<>>)
    \o (IF n >= r.lo THEN <<i>> ELSE <<>>)

\* for each end js[lo], ..., js[hi] of one more iteration, in this order: the
\* repetition goes on from there (an iteration that matched nothing ends it)
EndsAgain(r, s, i, n, js, lo, hi) ==
    IF lo > hi THEN <<>>
    ELSE IF lo = hi
    THEN (IF js[lo] > i THEN EndsRep(r, s, js[lo], n + 1) ELSE <<>>)
    ELSE LET mid == (lo + hi) \div 2
         IN  EndsAgain(r, s, i, n, js, lo, mid)
             \o EndsAgain(r, s, i, n, js, mid + 1, hi)

\* re.match(r, s): the end of the first match from the start of s, 0 for None
re_match(r, s) ==
    LET es == Ends(r, s, 1) IN IF es = <<>> THEN 0 ELSE es[1]

\* m.group() of a match of s that ends at e
group(s, b, e) == SubSeq(s, b, e - 1)

\* re.search(r, s): <<start, end>> of the leftmost match, <<0, 0>> for None
RECURSIVE SearchFrom(_, _, _)
SearchFrom(r, s, b) ==
    IF b > Len(s) + 1 THEN <<0, 0>>
    ELSE LET es == Ends(r, s, b)
         IN  IF es # <<>> THEN <<b, es[1]>> ELSE SearchFrom(r, s, b + 1)

re_search(r, s) == SearchFrom(r, s, 1)

(***************************************************************************)
(* The patterns of domain_auditor.py.                                      *)
(***************************************************************************)
\* [-~+?]?
qualifier == Opt(Cls({"-", "~", "+", "?"}))

\* ([\w-]+\.)+[\w-]+
domain_name ==
    Cat(<<Plus(Cat(<<Plus(Cls(Word \cup {"-"})), Lit(<<".">>)>>)),
          Plus(Cls(Word \cup {"-"}))>>)

\* r'v=spf1.+(?=")'
spf_prefix == Cat(<<Lit(<<"v", "=", "s", "p", "f", "1">>), Plus(AnyChar), Look(Lit(<<"\"">>))>>)

\* r'v=DKIM1.+(?=")'
dkim_prefix == Cat(<<Lit(<<"v", "=", "D", "K", "I", "M", "1">>), Plus(AnyChar), Look(Lit(<<"\"">>))>>)

\* r'v=DMARC1.+(?=")'
dmarc_prefix == Cat(<<Lit(<<"v", "=", "D", "M", "A", "R", "C", "1">>), Plus(AnyChar), Look(Lit(<<"\"">>))>>)

\* the alternatives of the repeated group of the pattern of validate_spf
spf_terms ==
    Star(Alt(<<
      \* (\s[-~+?]?ip4:\d{1,3}(\.\d{1,3}){3}(/\d{1,2})?)
      Cat(<<Cls(Space), qualifier, Lit(<<"i", "p", "4", ":">>), Rep(Cls(Digit), 1, 3),
            Rep(Cat(<<Lit(<<".">>), Rep(Cls(Digit), 1, 3)>>), 3, 3),
            Opt(Cat(<<Lit(<<"/">>), Rep(Cls(Digit), 1, 2)>>))>>),
      \* (\s[-~+?]?ip6:[\da-fA-F:]+(/\d{1,2})?)
      Cat(<<Cls(Space), qualifier, Lit(<<"i", "p", "6", ":">>),
            Plus(Cls(Digit \cup {"a", "b", "c", "d", "e", "f", "A", "B",
                                 "C", "D", "E", "F", ":"})),
            Opt(Cat(<<Lit(<<"/">>), Rep(Cls(Digit), 1, 2)>>))>>),
      \* (\s[-~+?]?a(:([\w-]+\.)+[\w-]+)?)
      Cat(<<Cls(Space), qualifier, Lit(<<"a">>),
            Opt(Cat(<<Lit(<<":">>), domain_name>>))>>),
      \* (\s[-~+?]?mx(:([\w-]+\.)+[\w-]+)?)
      Cat(<<Cls(Space), qualifier, Lit(<<"m", "x">>),
            Opt(Cat(<<Lit(<<":">>), domain_name>>))>>),
      \* (\s[-~+?]?include:([\w-]+\.)+[\w-]+)
      Cat(<<Cls(Space), qualifier, Lit(<<"i", "n", "c", "l", "u", "d", "e", ":">>), domain_name>>),
      \* (\sredirect=([\w-]+)[\.\w-]+)
      Cat(<<Cls(Space), Lit(<<"r", "e", "d", "i", "r", "e", "c", "t", "=">>), Plus(Cls(Word \cup {"-"})),
            Plus(Cls(Word \cup {".", "-"}))>>),
      \* (\sexp=([\w-]+)[\.\w-]+)
      Cat(<<Cls(Space), Lit(<<"e", "x", "p", "=">>), Plus(Cls(Word \cup {"-"})),
            Plus(Cls(Word \cup {".", "-"}))>>),
      \* (\s[-~+?]?exists:[\S]+)
      Cat(<<Cls(Space), qualifier, Lit(<<"e", "x", "i", "s", "t", "s", ":">>), Plus(NCls(Space))>>),
      \* (\s[\w.-]+=[\S]+)
      Cat(<<Cls(Space), Plus(Cls(Word \cup {".", "-"})), Lit(<<"=">>),
            Plus(NCls(Space))>>)
    >>))

\* the pattern of validate_spf; ^ is implied by re.match, and there is no $
spf_pattern ==
    Cat(<<Lit(<<"v", "=", "s", "p", "f", "1">>),
          spf_terms,
          \* (\s[-~+?]all): the qualifier is not optional here
          Cat(<<Cls(Space), Cls({"-", "~", "+", "?"}), Lit(<<"a", "l", "l">>)>>)>>)

\* \s*;\s*<name>\s*=\s*<value>: one tag of a DKIM or DMARC record
tag(name, value) ==
    Cat(<<Star(Cls(Space)), Lit(<<";">>), Star(Cls(Space)), Lit(name),
          Star(Cls(Space)), Lit(<<"=">>), Star(Cls(Space)), value>>)

\* the pattern of validate_dkim
dkim_pattern ==
    Cat(<<Lit(<<"v">>), Star(Cls(Space)), Lit(<<"=">>), Star(Cls(Space)),
          Lit(<<"D", "K", "I", "M", "1">>),
          Plus(Alt(<<
            \* (\s*;\s*k\s*=\s*[\w:]+)
            tag(<<"k">>, Plus(Cls(Word \cup {":"}))),
            \* (\s*;\s*p\s*=\s*[\w+/]+=*)
            tag(<<"p">>, Cat(<<Plus(Cls(Word \cup {"+", "/"})),
                               Star(Lit(<<"=">>))>>)),
            \* (\s*;\s*s\s*=\s*([\w:]+|\*))
            tag(<<"s">>, Alt(<<Plus(Cls(Word \cup {":"})), Lit(<<"*">>)>>)),
            \* (\s*;\s*h\s*=\s*[\w:]+)
            tag(<<"h">>, Plus(Cls(Word \cup {":"}))),
            \* (\s*;\s*t\s*=\s*[\w]+)
            tag(<<"t">>, Plus(Cls(Word))),
            \* (\s*;\s*n\s*=\s*[\w\s]+)
            tag(<<"n">>, Plus(Cls(Word \cup Space)))
          >>)),
          \* \s*;?
          Star(Cls(Space)), Opt(Lit(<<";">>))>>)

\* (none|quarantine|reject)
policy == Alt(<<Lit(<<"n", "o", "n", "e">>), Lit(<<"q", "u", "a", "r", "a", "n", "t", "i", "n", "e">>), Lit(<<"r", "e", "j", "e", "c", "t">>)>>)

\* the pattern of validate_dmarc; there is no $
dmarc_pattern ==
    Cat(<<Lit(<<"v">>), Star(Cls(Space)), Lit(<<"=">>), Star(Cls(Space)),
          Lit(<<"D", "M", "A", "R", "C", "1">>),
          \* \s*;\s*p\s*=\s*(none|quarantine|reject)
          tag(<<"p">>, policy),
          Star(Alt(<<
            \* (\s*;\s*sp\s*=\s*(none|quarantine|reject))
            tag(<<"s", "p">>, policy),
            \* (\s*;\s*rua\s*=\s*([^;]*))
            tag(<<"r", "u", "a">>, Star(NCls({";"}))),
            \* (\s*;\s*ruf\s*=\s*([^;]+))
            tag(<<"r", "u", "f">>, Plus(NCls({";"}))),
            \* (\s*;\s*adkim\s*=\s*[rs])
            tag(<<"a", "d", "k", "i", "m">>, Cls({"r", "s"})),
            \* (\s*;\s*aspf\s*=\s*[rs])
            tag(<<"a", "s", "p", "f">>, Cls({"r", "s"})),
            \* (\s*;\s*ri\s*=\s*\d+)
            tag(<<"r", "i">>, Plus(Cls(Digit))),
            \* (\s*;\s*fo\s*=\s*[01ds](\s*:\s*[01ds])*)
            tag(<<"f", "o">>, Cat(<<Cls({"0", "1", "d", "s"}),
                            Star(Cat(<<Star(Cls(Space)), Lit(<<":">>),
                                       Star(Cls(Space)),
                                       Cls({"0", "1", "d", "s"})>>))>>)),
            \* (\s*;\s*rf\s*=\s*[a-zA-Z]+)
            tag(<<"r", "f">>, Plus(Cls(Lower \cup Upper))),
            \* (\s*;\s*pct\s*=\s*[\d]{3})
            tag(<<"p", "c", "t">>, Rep(Cls(Digit), 3, 3))
          >>))>>)

(***************************************************************************)
(* Texts of TXT records, the inputs of the model.                          *)
(***************************************************************************)
\* MS=ms1: a TXT record of another kind
txt_other ==
    <<"M", "S", "=", "m", "s", "1">>

\* v=spf1 mx -all
spf_ok ==
    <<"v", "=", "s", "p", "f", "1", " ", "m", "x", " ", "-", "a", "l", "l">>

\* v=spf1 -all x: text after the final all
spf_trail ==
    <<"v", "=", "s", "p", "f", "1", " ", "-", "a", "l", "l", " ", "x">>

\* v=spf1 include:_spf.example.com -all
spf_include ==
    <<"v", "=", "s", "p", "f", "1", " ", "i", "n", "c", "l", "u", "d", "e",
      ":", "_", "s", "p", "f", ".", "e", "x", "a", "m", "p", "l", "e", ".",
      "c", "o", "m", " ", "-", "a", "l", "l">>

\* v=spf1 all: the final all without a qualifier
spf_bare_all ==
    <<"v", "=", "s", "p", "f", "1", " ", "a", "l", "l">>

\* v=spf1 mx: no final all
spf_no_all ==
    <<"v", "=", "s", "p", "f", "1", " ", "m", "x">>

\* v=DKIM1; k=rsa; p=MIGfMA0
dkim_ok ==
    <<"v", "=", "D", "K", "I", "M", "1", ";", " ", "k", "=", "r", "s", "a",
      ";", " ", "p", "=", "M", "I", "G", "f", "M", "A", "0">>

\* v=DKIM1; p=AB+/c==
dkim_ok2 ==
    <<"v", "=", "D", "K", "I", "M", "1", ";", " ", "p", "=", "A", "B", "+",
      "/", "c", "=", "=">>

\* v=DKIM1; x=1: no recognized tag
dkim_bad ==
    <<"v", "=", "D", "K", "I", "M", "1", ";", " ", "x", "=", "1">>

\* v=DMARC1; p=none
dmarc_ok ==
    <<"v", "=", "D", "M", "A", "R", "C", "1", ";", " ", "p", "=", "n", "o",
      "n", "e">>

\* v=DMARC1; and p=none: one answer in two quoted segments
dmarc_head ==
    <<"v", "=", "D", "M", "A", "R", "C", "1", ";">>

dmarc_tail ==
    <<"p", "=", "n", "o", "n", "e">>

\* v=DMARC1; p=none; x: text after the last recognized tag
dmarc_trail ==
    <<"v", "=", "D", "M", "A", "R", "C", "1", ";", " ", "p", "=", "n", "o",
      "n", "e", ";", " ", "x">>

\* v=DMARC1; p=reject; rua=mailto:agg@example.com; pct=100
dmarc_full ==
    <<"v", "=", "D", "M", "A", "R", "C", "1", ";", " ", "p", "=", "r", "e",
      "j", "e", "c", "t", ";", " ", "r", "u", "a", "=", "m", "a", "i", "l",
      "t", "o", ":", "a", "g", "g", "@", "e", "x", "a", "m", "p", "l", "e",
      ".", "c", "o", "m", ";", " ", "p", "c", "t", "=", "1", "0", "0">>

\* v=DMARC1; p=reject; pct=50: pct with two digits
dmarc_pct2 ==
    <<"v", "=", "D", "M", "A", "R", "C", "1", ";", " ", "p", "=", "r", "e",
      "j", "e", "c", "t", ";", " ", "p", "c", "t", "=", "5", "0">>

\* v=DMARC1; sp=none; p=reject: p is not the first tag
dmarc_sp_first ==
    <<"v", "=", "D", "M", "A", "R", "C", "1", ";", " ", "s", "p", "=", "n",
      "o", "n", "e", ";", " ", "p", "=", "r", "e", "j", "e", "c", "t">>

(***************************************************************************)
(* Inputs: names, DNS answers and the resolver's responses.                *)
(***************************************************************************)
\* the longest selector list the model passes to the auditor
MaxSelectors == 2

Targets == {"a.com", "b.org"}

\* the selectors s1, s2, ...
Selector(i) == "s" \o ToString(i)

\* the selector lists of the model: the first n selectors, in either order
SelectorLists ==
    {[i \in 1..n |-> Selector(i)] : n \in 0..MaxSelectors}
    \cup {[i \in 1..n |-> Selector(MaxSelectors + 1 - i)] : n \in 0..MaxSelectors}

DkimTypes == {"TXT"}

\* One TXT answer is a sequence of character strings (its quoted segments).
\* A response of the resolver: an RRset of answers, or a DNSException.
Answers(rrset) == [ok |-> TRUE, rrset |-> rrset]
DNSException == [ok |-> FALSE, rrset |-> <<>>]

\* The responses to the queries of the state machine: a failure, answers of
\* which none is of the kind, and answers of the kind.
SpfResponses ==
    {DNSException,
     Answers(<<<<txt_other>>>>),
     Answers(<<<<txt_other>>, <<spf_ok>>>>)}

DkimResponses ==
    {DNSException,
     Answers(<<<<dkim_ok>>>>),
     Answers(<<<<dkim_bad>>>>)}

DmarcResponses ==
    {DNSException,
     Answers(<<<<txt_other>>>>),
     Answers(<<<<dmarc_head, dmarc_tail>>>>)}

\* The wider range of responses the validators are checked on: every text
\* above alone, and two records of one kind in one RRset.
SpfZone ==
    SpfResponses
    \cup {Answers(<<<<c>>>>) : c \in {spf_ok, spf_trail, spf_include,
                                      spf_bare_all, spf_no_all}}
    \cup {Answers(<<<<spf_ok>>, <<spf_trail>>>>)}

DkimZone ==
    DkimResponses
    \cup {Answers(<<<<dkim_ok2>>>>), Answers(<<<<dkim_ok>>, <<dkim_ok2>>>>)}

DmarcZone ==
    (DmarcResponses \ {Answers(<<<<txt_other>>>>)})
    \cup {Answers(<<<<c>>>>) : c \in {dmarc_ok, dmarc_trail, dmarc_full,
                                      dmarc_pct2, dmarc_sp_first}}
    \cup {Answers(<<<<dmarc_ok>>, <<dmarc_trail>>>>)}

(***************************************************************************)
(* The auditor object and the outcome of a call.                           *)
(***************************************************************************)
\* A record field of the auditor: None, or a list of records.  "q" names the
\* queries the list was fetched with (history, not read by the methods).
None == [none |-> TRUE, recs |-> <<>>, q |-> <<>>]
List(recs, q) == [none |-> FALSE, recs |-> recs, q |-> q]

\* a call returned v, after the exchanges dns with the resolver
Return(self, v, dns) ==
    [self |-> self, raised |-> "none", ret |-> v, dns |-> dns]

\* a call raised the exception e
Raise(self, e, dns) ==
    [self |-> self, raised |-> e, ret |-> <<>>, dns |-> dns]

\* one call of _resolver.resolve and what it answered
Exchange(name, rdtype, resp) == [name |-> name, rdtype |-> rdtype, resp |-> resp]

\* dauditor(audit_target, dkim_selectors, dkim_record_type)
dauditor(audit_target, dkim_selectors, dkim_record_type) ==
    [target |-> audit_target, selectors |-> dkim_selectors,
     dkim_type |-> dkim_record_type,
     spf_record |-> None, dkim_records |-> None, dmarc_record |-> None]

(***************************************************************************)
(* Text helpers.                                                           *)
(***************************************************************************)
\* answer.to_text() of a TXT answer: each segment in double quotes, the
\* segments separated by one space
RECURSIVE to_text(_)
to_text(answer) ==
    IF answer = <<>> THEN <<>>
    ELSE <<"\"">> \o Head(answer) \o <<"\"">>
         \o (IF Len(answer) > 1 THEN <<" ">> \o to_text(Tail(answer)) ELSE <<>>)

\* s[a:b], for 0 <= a <= b
slice(s, a, b) == SubSeq(s, a + 1, IF b < Len(s) THEN b ELSE Len(s))

\* s.replace(old, new): every occurrence of old, from the left
RECURSIVE replace(_, _, _)
replace(s, old, new) ==
    LET at == {i \in 1..(Len(s) - Len(old) + 1) :
                  SubSeq(s, i, i + Len(old) - 1) = old}
        first == CHOOSE i \in at : \A j \in at : i <= j
    IN  IF at = {} THEN s
        ELSE SubSeq(s, 1, first - 1) \o new
             \o replace(SubSeq(s, first + Len(old), Len(s)), old, new)

\* the loop over txt_records.rrset of the three fetchers: the matches of the
\* prefix pattern in the answers, in the order of the answers
RECURSIVE found_records(_, _)
found_records(prefix, rrset) ==
    IF rrset = <<>> THEN <<>>
    ELSE LET a == to_text(Head(rrset))
             found == re_search(prefix, a)
         IN  (IF found # <<0, 0>> THEN <<group(a, found[1], found[2])>> ELSE <<>>)
             \o found_records(prefix, Tail(rrset))

(***************************************************************************)
(* The pattern functions on the texts of the model, computed once: the     *)
(* fetchers and validators below look their results up here.               *)
(***************************************************************************)
Range(f) == {f[i] : i \in DOMAIN f}

\* every RRset the resolver may answer with
RRsets == {r.rrset : r \in SpfZone \cup DkimZone \cup DmarcZone \cup DmarcResponses}

spf_found == [rrset \in RRsets |-> found_records(spf_prefix, rrset)]
dkim_found == [rrset \in RRsets |-> found_records(dkim_prefix, rrset)]
dmarc_found == [rrset \in RRsets |-> found_records(dmarc_prefix, rrset)]

\* every record a fetcher may store
Records ==
    UNION {Range(spf_found[x]) \cup Range(dkim_found[x]) \cup Range(dmarc_found[x])
              \cup {replace(y, <<"\"", " ", "\"">>, <<" ">>) : y \in Range(dmarc_found[x])}
           : x \in RRsets}

spf_match == [c \in Records |-> re_match(spf_pattern, c)]
dkim_match == [c \in Records |-> re_match(dkim_pattern, c)]
dmarc_match == [c \in Records |-> re_match(dmarc_pattern, c)]

(***************************************************************************)
(* The methods of dauditor.  Each takes the object and the resolver's      *)
(* responses to the queries it makes, and gives the object afterwards, the *)
(* value returned or the exception raised, and the exchanges made.         *)
(***************************************************************************)
\* a change_target that forgets to wipe the DKIM records
change_target_keeps_dkim(self, new_target, new_dkim_selectors, new_dkim_type) ==
    Return([self EXCEPT !.spf_record = None, !.dmarc_record = None,
                        !.target = new_target,
                        !.selectors = new_dkim_selectors,
                        !.dkim_type = new_dkim_type],
           "None", <<>>)

change_target(self, new_target, new_dkim_selectors, new_dkim_type) ==
    Return([self EXCEPT !.spf_record = None, !.dkim_records = None,
                        !.dmarc_record = None, !.target = new_target,
                        !.selectors = new_dkim_selectors,
                        !.dkim_type = new_dkim_type],
           "None", <<>>)

fetch_spf(self, resp) ==
    LET dns == <<Exchange(self.target, "TXT", resp)>>
        recs == IF resp.ok THEN spf_found[resp.rrset] ELSE <<>>
    IN  Return([self EXCEPT !.spf_record = List(recs, <<self.target>>)],
               recs, dns)

\* the queries of fetch_dkim: one per selector, in the order of the list
dkim_queries(self) ==
    [i \in 1..Len(self.selectors) |->
        self.selectors[i] \o ("._domainkey." \o self.target)]

\* the loop of fetch_dkim from selector i on
RECURSIVE dkim_loop(_, _, _)
dkim_loop(self, resps, i) ==
    IF i > Len(self.selectors) THEN <<>>
    ELSE (IF resps[i].ok THEN dkim_found[resps[i].rrset] ELSE <<>>)
         \o dkim_loop(self, resps, i + 1)

\* a fetch_dkim whose loop ends at the first selector that fails to resolve
\* (break for continue)
RECURSIVE dkim_loop_break(_, _, _)
dkim_loop_break(self, resps, i) ==
    IF i > Len(self.selectors) \/ ~resps[i].ok THEN <<>>
    ELSE dkim_found[resps[i].rrset] \o dkim_loop_break(self, resps, i + 1)

fetch_dkim_break(self, resps) ==
    IF Len(self.selectors) = 0 THEN Return(self, <<>>, <<>>)
    ELSE LET names == dkim_queries(self)
             asked == IF \A i \in 1..Len(names) : resps[i].ok THEN Len(names)
                      ELSE CHOOSE i \in 1..Len(names) :
                              ~resps[i].ok /\ \A j \in 1..(i - 1) : resps[j].ok
             dns == [i \in 1..asked |->
                        Exchange(names[i], self.dkim_type, resps[i])]
             recs == dkim_loop_break(self, resps, 1)
         IN  Return([self EXCEPT !.dkim_records = List(recs, names)], recs, dns)

\* a fetch_dkim that, given no selector, tries the selector "default"
fetch_dkim_default(self, resps) ==
    LET name == "default._domainkey." \o self.target
    IN  IF Len(self.selectors) = 0
        THEN Return([self EXCEPT !.dkim_records = List(<<>>, <<name>>)], <<>>,
                    <<Exchange(name, self.dkim_type, DNSException)>>)
        ELSE LET names == dkim_queries(self)
                 dns == [i \in 1..Len(names) |->
                            Exchange(names[i], self.dkim_type, resps[i])]
                 recs == dkim_loop(self, resps, 1)
             IN  Return([self EXCEPT !.dkim_records = List(recs, names)], recs, dns)

fetch_dkim(self, resps) ==
    IF Len(self.selectors) = 0 THEN Return(self, <<>>, <<>>)
    ELSE LET names == dkim_queries(self)
             dns == [i \in 1..Len(names) |->
                        Exchange(names[i], self.dkim_type, resps[i])]
             recs == dkim_loop(self, resps, 1)
         IN  Return([self EXCEPT !.dkim_records = List(recs, names)], recs, dns)

fetch_dmarc(self, resp) ==
    LET dmarc_domain == "_dmarc." \o self.target
        dns == <<Exchange(dmarc_domain, "TXT", resp)>>
        recs == IF resp.ok THEN dmarc_found[resp.rrset] ELSE <<>>
        joined == IF slice(recs[1], 0, 10)
                       = <<"v", "=", "D", "M", "A", "R", "C", "1", ";", "\"">>
                  THEN [recs EXCEPT ![1] = replace(recs[1], <<"\"", " ", "\"">>, <<" ">>)]
                  ELSE recs
    IN  IF ~resp.ok
        THEN Return([self EXCEPT !.dmarc_record = List(<<>>, <<dmarc_domain>>)],
                    <<>>, dns)
        ELSE IF recs = <<>>
        \* self.dmarc_record[0] of an empty list
        THEN Raise([self EXCEPT !.dmarc_record = List(<<>>, <<dmarc_domain>>)],
                   "IndexError", dns)
        ELSE Return([self EXCEPT !.dmarc_record = List(joined, <<dmarc_domain>>)],
                    joined, dns)

\* (False, message) and (True, matched text) of the validators
Failure(message) == [ok |-> FALSE, detail |-> message]
Success(matched) == [ok |-> TRUE, detail |-> matched]

(***************************************************************************)
(* A validator first fetches when it holds no records; "held" below is the  *)
(* outcome of that step (of no step, when records are held).               *)

\* validate_spf from its first `if` on
spf_verdict(held) ==
    LET spf_record == held.self.spf_record.recs
        valid_spf == spf_match[spf_record[1]]
    IN  IF Len(spf_record) = 0
        THEN Return(held.self, Failure("ERROR: no SPF record was found"), held.dns)
        ELSE IF Len(spf_record) >= 2
        THEN Return(held.self, Failure("ERROR: multiple SPF records found"), held.dns)
        ELSE IF valid_spf # 0
        THEN Return(held.self, Success(group(spf_record[1], 1, valid_spf)), held.dns)
        ELSE Return(held.self, Failure("ERROR: found SPF record was invalid"), held.dns)

validate_spf(self, resp) ==
    spf_verdict(IF self.spf_record.none THEN fetch_spf(self, resp)
                ELSE Return(self, <<>>, <<>>))

\* the loop of validate_dkim: the matched text of every record that matches
RECURSIVE valid_records(_)
valid_records(records) ==
    IF records = <<>> THEN <<>>
    ELSE LET valid_dkim == dkim_match[Head(records)]
         IN  (IF valid_dkim # 0
              THEN <<group(Head(records), 1, valid_dkim)>> ELSE <<>>)
             \o valid_records(Tail(records))

\* validate_dkim from its first `if` on
dkim_verdict(held) ==
    LET dkim_records == held.self.dkim_records.recs
    IN  IF held.self.dkim_records.none
        \* len(self.dkim_records) of None
        THEN Raise(held.self, "TypeError", held.dns)
        ELSE IF Len(dkim_records) = 0
        THEN Return(held.self, Failure("ERROR: no DKIM record was found"), held.dns)
        ELSE IF Len(dkim_records) >= 2
        THEN Return(held.self,
                    Failure("ERROR: multiple DKIM records found on the same selector"),
                    held.dns)
        ELSE IF Len(valid_records(dkim_records)) > 0
        THEN Return(held.self, Success(valid_records(dkim_records)), held.dns)
        ELSE Return(held.self, Failure("ERROR: found DKIM records were invalid"),
                    held.dns)

validate_dkim(self, resps) ==
    dkim_verdict(IF self.dkim_records.none THEN fetch_dkim(self, resps)
                 ELSE Return(self, <<>>, <<>>))

\* validate_dmarc from its first `if` on
dmarc_verdict(held) ==
    LET dmarc_record == held.self.dmarc_record.recs
        valid_dmarc == dmarc_match[dmarc_record[1]]
    IN  IF held.raised # "none" THEN held
        ELSE IF Len(dmarc_record) = 0
        THEN Return(held.self, Failure("ERROR: no DMARC record was found"), held.dns)
        ELSE IF Len(dmarc_record) >= 2
        THEN Return(held.self,
                    Failure("ERROR: multiple DKIM records found on the same selector"),
                    held.dns)
        ELSE IF valid_dmarc # 0
        THEN Return(held.self, Success(group(dmarc_record[1], 1, valid_dmarc)),
                    held.dns)
        ELSE Return(held.self, Failure("ERROR: found DMARC record was invalid"),
                    held.dns)

validate_dmarc(self, resp) ==
    dmarc_verdict(IF self.dmarc_record.none THEN fetch_dmarc(self, resp)
                  ELSE Return(self, <<>>, <<>>))

\* the dict of audit_dns_records, built entry by entry: each validator runs
\* on the object the one before it left; an exception ends the call
audit_results(fetched_spf, fetched_dkim, fetched_dmarc, spf, dkim, dmarc, dns) ==
    IF dkim.raised # "none" THEN Raise(dkim.self, dkim.raised, dns)
    ELSE Return(dmarc.self,
                [SPF |-> <<spf.ret, fetched_spf.ret>>,
                 DKIM |-> <<dkim.ret, fetched_dkim.ret>>,
                 DMARC |-> <<dmarc.ret, fetched_dmarc.ret>>],
                dns)

\* audit_dns_records after its three fetches.  The records of SPF and DMARC
\* are held by now, and those of DKIM unless fetch_dkim returned before
\* storing a list: no validator asks the resolver again.
audit_validate(fetched_spf, fetched_dkim, fetched_dmarc) ==
    IF fetched_dmarc.raised # "none"
    THEN Raise(fetched_dmarc.self, fetched_dmarc.raised,
               fetched_spf.dns \o fetched_dkim.dns \o fetched_dmarc.dns)
    ELSE audit_results(fetched_spf, fetched_dkim, fetched_dmarc,
                       validate_spf(fetched_dmarc.self, DNSException),
                       validate_dkim(fetched_dmarc.self, <<>>),
                       validate_dmarc(fetched_dmarc.self, DNSException),
                       fetched_spf.dns \o fetched_dkim.dns \o fetched_dmarc.dns)

\* fetch_dkim and fetch_dmarc of audit_dns_records, on the object fetch_spf left
audit_fetch_dmarc(fetched_spf, fetched_dkim, dmarc_resp) ==
    audit_validate(fetched_spf, fetched_dkim,
                   fetch_dmarc(fetched_dkim.self, dmarc_resp))

audit_fetch_dkim(fetched_spf, dkim_resps, dmarc_resp) ==
    audit_fetch_dmarc(fetched_spf, fetch_dkim(fetched_spf.self, dkim_resps),
                      dmarc_resp)

audit_dns_records(self, spf_resp, dkim_resps, dmarc_resp) ==
    audit_fetch_dkim(fetch_spf(self, spf_resp), dkim_resps, dmarc_resp)

(***************************************************************************)
(* The state machine: one auditor, its caller, and the resolver.           *)
(***************************************************************************)
VARIABLES
    self,     \* the auditor object
    op,       \* the method called last
    raised,   \* the exception it raised, "none" when it returned
    ret,      \* the value it returned
    dns,      \* the exchanges with the resolver it made
    wiped     \* whether it set to None a record field that held a list

vars == <<self, op, raised, ret, dns, wiped>>

\* the state after the call `name` with outcome `out`
Called(name, out) ==
    /\ self' = out.self
    /\ op' = name
    /\ raised' = out.raised
    /\ ret' = out.ret
    /\ dns' = out.dns
    /\ wiped' = \E f \in {"spf_record", "dkim_records", "dmarc_record"} :
                    ~self[f].none /\ out.self[f].none

\* the responses the resolver may give to the queries of fetch_dkim
DkimResponseLists(obj) == [1..Len(obj.selectors) -> DkimResponses]

Init ==
    /\ \E t \in Targets, sels \in SelectorLists, ty \in DkimTypes :
          self = dauditor(t, sels, ty)
    /\ op = "__init__"
    /\ raised = "none"
    /\ ret = "None"
    /\ dns = <<>>
    /\ wiped = FALSE

ChangeTarget ==
    \E t \in Targets, sels \in SelectorLists, ty \in DkimTypes :
        Called("change_target", change_target(self, t, sels, ty))

FetchSpf ==
    \E resp \in SpfResponses : Called("fetch_spf", fetch_spf(self, resp))

FetchDkim ==
    \E resps \in DkimResponseLists(self) :
        Called("fetch_dkim", fetch_dkim(self, resps))

FetchDmarc ==
    \E resp \in DmarcResponses : Called("fetch_dmarc", fetch_dmarc(self, resp))

\* a validator asks the resolver only when it holds no records yet
ValidateSpf ==
    \E resp \in IF self.spf_record.none THEN SpfResponses ELSE {DNSException} :
        Called("validate_spf", validate_spf(self, resp))

ValidateDkim ==
    \E resps \in IF self.dkim_records.none THEN DkimResponseLists(self) ELSE {<<>>} :
        Called("validate_dkim", validate_dkim(self, resps))

ValidateDmarc ==
    \E resp \in IF self.dmarc_record.none THEN DmarcResponses ELSE {DNSException} :
        Called("validate_dmarc", validate_dmarc(self, resp))

AuditDnsRecords ==
    \E spf_resp \in SpfResponses, dkim_resps \in DkimResponseLists(self),
       dmarc_resp \in DmarcResponses :
        Called("audit_dns_records",
               audit_dns_records(self, spf_resp, dkim_resps, dmarc_resp))

Next ==
    \/ ChangeTarget
    \/ FetchSpf
    \/ FetchDkim
    \/ FetchDmarc
    \/ ValidateSpf
    \/ ValidateDkim
    \/ ValidateDmarc
    \/ AuditDnsRecords

Spec == Init /\ [][Next]_vars

(***************************************************************************)
(* The validators alone, on a wider range of records: the auditor has run  *)
(* its three fetchers, as audit_dns_records does, and the resolver         *)
(* answered from SpfZone, DkimZone and DmarcZone.                          *)
(***************************************************************************)
Fetched(obj, spf_resp, dkim_resps, dmarc_resp) ==
    fetch_dmarc(fetch_dkim(fetch_spf(obj, spf_resp).self, dkim_resps).self,
                dmarc_resp)

ValidatorInit ==
    /\ \E t \in Targets, sels \in SelectorLists, ty \in DkimTypes :
       \E spf_resp \in SpfZone, dkim_resps \in [1..Len(sels) -> DkimZone],
          dmarc_resp \in DmarcZone :
          LET f == Fetched(dauditor(t, sels, ty), spf_resp, dkim_resps, dmarc_resp)
          IN  /\ self = f.self
              /\ raised = f.raised
              /\ ret = f.ret
              /\ dns = f.dns
    /\ op = "fetch_dmarc"
    /\ wiped = FALSE

ValidatorNext ==
    \/ ValidateSpf
    \/ ValidateDkim
    \/ ValidateDmarc

ValidatorSpec == ValidatorInit /\ [][ValidatorNext]_vars

(***************************************************************************)
(* The claims.                                                             *)
(***************************************************************************)
\* the exchanges of the last call in which the resolver failed
Failed == {i \in 1..Len(dns) : ~dns[i].resp.ok}

\* the DKIM candidates of each exchange of a DKIM fetch: none when it failed
Candidates(exchanges) ==
    [i \in 1..Len(exchanges) |->
        IF exchanges[i].resp.ok THEN dkim_found[exchanges[i].resp.rrset] ELSE <<>>]

\* the sequences seqs[i], seqs[i+1], ... one after the other
RECURSIVE Flatten(_, _)
Flatten(seqs, i) ==
    IF i > Len(seqs) THEN <<>> ELSE seqs[i] \o Flatten(seqs, i + 1)

\* the query names of the auditor's target and selectors
DkimNames ==
    [i \in 1..Len(self.selectors) |->
        (self.selectors[i] \o "._domainkey.") \o self.target]

\* the outcome of a validator step on an auditor that holds recs in field f
Holding(f, recs) ==
    Return([dauditor("a.com", <<>>, "TXT") EXCEPT ![f] = List(recs, <<>>)],
           <<>>, <<>>)

\* s matches r from its first to its last character
FullMatch(r, s) ==
    LET es == Ends(r, s, 1) IN \E k \in 1..Len(es) : es[k] = Len(s) + 1

\* C1: for a target with a non-empty selector list, whatever the resolver
\* answers to each query, audit_dns_records returns a report with the three
\* keys SPF, DKIM and DMARC, each with a verdict, and raises nothing.
C1_AuditAlwaysReports ==
    op = "audit_dns_records" /\ Len(self.selectors) > 0 =>
        /\ raised = "none"
        /\ DOMAIN ret = {"SPF", "DKIM", "DMARC"}
        /\ \A k \in DOMAIN ret : ret[k][1].ok \in BOOLEAN

\* C2: when only the DMARC query of an audit fails, the report is complete,
\* its SPF and DKIM entries are what they are when DMARC resolves, and its
\* DMARC verdict is a failure whose diagnostic is not the one given when the
\* query succeeds without a DMARC record ("not found").
C2_DmarcFailureIsolated ==
    /\ op = "audit_dns_records"
    /\ Len(self.selectors) > 0
    /\ Len(dns) = Len(self.selectors) + 2
    /\ Failed = {Len(dns)}
    => /\ raised = "none"
       /\ \A resolved \in {r \in DmarcResponses : r.ok /\ dmarc_found[r.rrset] # <<>>} :
             LET other == audit_dns_records(
                              self, dns[1].resp,
                              [i \in 1..Len(self.selectors) |-> dns[i + 1].resp],
                              resolved)
             IN  /\ other.raised = "none"
                 /\ ret.SPF = other.ret.SPF
                 /\ ret.DKIM = other.ret.DKIM
       /\ ~ret.DMARC[1].ok
       /\ ret.DMARC[1].detail # dmarc_verdict(Holding("dmarc_record", <<>>)).ret.detail

\* C3: validate_dkim counts records per selector: when every selector
\* returned exactly one valid record the verdict is true with all the
\* matched spans in selector order, and the verdict is false only when no
\* selector returned a valid record.
C3_DkimPerSelector ==
    op = "validate_dkim" /\ raised = "none" /\ dns # <<>> =>
        LET cand == Candidates(dns)
            valid(i) == \E j \in 1..Len(cand[i]) : dkim_match[cand[i][j]] # 0
        IN  /\ (\A i \in 1..Len(dns) : Len(cand[i]) = 1 /\ valid(i))
                  => /\ ret.ok
                     /\ ret.detail
                          = [i \in 1..Len(dns) |->
                                group(cand[i][1], 1, dkim_match[cand[i][1]])]
            /\ ~ret.ok => \A i \in 1..Len(dns) : ~valid(i)

\* C4: change_target leaves the three record fields None, and every verdict
\* a validator or an audit returns is computed from records that were
\* fetched with the queries of the current target and selectors.
C4_RetargetClearsRecords ==
    /\ op = "change_target" =>
          self.spf_record.none /\ self.dkim_records.none /\ self.dmarc_record.none
    /\ op \in {"validate_spf", "audit_dns_records"} /\ raised = "none" =>
          ~self.spf_record.none /\ self.spf_record.q = <<self.target>>
    /\ op \in {"validate_dkim", "audit_dns_records"} /\ raised = "none" =>
          ~self.dkim_records.none /\ self.dkim_records.q = DkimNames
    /\ op \in {"validate_dmarc", "audit_dns_records"} /\ raised = "none" =>
          ~self.dmarc_record.none
          /\ self.dmarc_record.q = <<"_dmarc." \o self.target>>

\* change_target was called on an auditor that held records
C4_Witness ==
    /\ op = "change_target"
    /\ wiped
    /\ self.spf_record.none /\ self.dkim_records.none /\ self.dmarc_record.none

\* C5: fetch_dkim asks for every selector of a non-empty list exactly once,
\* as <selector>._domainkey.<domain> and in the order of the list, whether
\* or not a query fails, and returns the candidates of the selectors that
\* resolved, in selector order.
C5_DkimFailureIsolated ==
    op = "fetch_dkim" /\ Len(self.selectors) > 0 =>
        /\ raised = "none"
        /\ Len(dns) = Len(self.selectors)
        /\ \A i \in 1..Len(dns) :
              dns[i].name = DkimNames[i] /\ dns[i].rdtype = self.dkim_type
        /\ ret = Flatten(Candidates(dns), 1)
        /\ self.dkim_records.recs = ret

\* the first of two selectors failed to resolve, the second gave a record
C5_Witness ==
    /\ op = "fetch_dkim"
    /\ Len(dns) = 2
    /\ Failed = {1}
    /\ ret # <<>>

\* C9: fetch_dkim with no selector returns an empty list and asks the
\* resolver nothing, whatever the auditor holds.
C9_NoSelectorsNoQuery ==
    op = "fetch_dkim" /\ Len(self.selectors) = 0 =>
        raised = "none" /\ ret = <<>> /\ dns = <<>>

\* fetch_dkim with no selector, after fetch_spf and fetch_dmarc
C9_Witness ==
    /\ op = "fetch_dkim"
    /\ Len(self.selectors) = 0
    /\ ~self.spf_record.none /\ ~self.dmarc_record.none
    /\ dns = <<>>

\* C10: with no selector, validate_dkim and audit_dns_records give the DKIM
\* verdict (False, "ERROR: no DKIM record was found") and raise nothing, and
\* the audit gives the SPF and DMARC verdicts too.  (An audit that ends in
\* the IndexError of fetch_dmarc is left to C1.)
C10_NoSelectorsStillVerdict ==
    /\ op = "validate_dkim" /\ Len(self.selectors) = 0 =>
          raised = "none" /\ ret = Failure("ERROR: no DKIM record was found")
    /\ op = "audit_dns_records" /\ Len(self.selectors) = 0 /\ raised # "IndexError" =>
          /\ raised = "none"
          /\ ret.DKIM[1] = Failure("ERROR: no DKIM record was found")
          /\ ret.SPF[1].ok \in BOOLEAN
          /\ ret.DMARC[1].ok \in BOOLEAN

\* the grammar of C6: v=spf1, terms, and a final all whose qualifier is optional
spf_grammar ==
    Cat(<<Lit(<<"v", "=", "s", "p", "f", "1">>), spf_terms,
          Cat(<<Cls(Space), qualifier, Lit(<<"a", "l", "l">>)>>)>>)

\* C6: with exactly one SPF candidate, validate_spf returns true iff the
\* whole candidate matches the grammar; then the detail is the whole
\* candidate, and otherwise it is "ERROR: found SPF record was invalid".
C6_SpfWholeString ==
    op = "validate_spf" /\ raised = "none" /\ Len(self.spf_record.recs) = 1 =>
        LET candidate == self.spf_record.recs[1]
        IN  /\ ret.ok <=> FullMatch(spf_grammar, candidate)
            /\ ret.ok => ret.detail = candidate
            /\ ~ret.ok => ret.detail = "ERROR: found SPF record was invalid"

\* C7: with exactly one DMARC candidate, validate_dmarc returns true iff the
\* match of the grammar spans the whole record (so not when text follows the
\* last recognized tag, nor when p is not the first tag); then the detail is
\* the whole record.
C7_DmarcWholeRecord ==
    op = "validate_dmarc" /\ raised = "none" /\ Len(self.dmarc_record.recs) = 1 =>
        LET candidate == self.dmarc_record.recs[1]
        IN  /\ ret.ok <=> FullMatch(dmarc_pattern, candidate)
            /\ ret.ok => ret.detail = candidate

\* the diagnostics of each validator: for no record, for several, for an
\* invalid one
SpfDiagnostics ==
    <<spf_verdict(Holding("spf_record", <<>>)).ret.detail,
      spf_verdict(Holding("spf_record", <<spf_ok, spf_trail>>)).ret.detail,
      spf_verdict(Holding("spf_record", <<spf_no_all>>)).ret.detail>>

DkimDiagnostics ==
    <<dkim_verdict(Holding("dkim_records", <<>>)).ret.detail,
      dkim_verdict(Holding("dkim_records", <<dkim_ok, dkim_ok2>>)).ret.detail,
      dkim_verdict(Holding("dkim_records", <<dkim_bad>>)).ret.detail>>

DmarcDiagnostics ==
    <<dmarc_verdict(Holding("dmarc_record", <<>>)).ret.detail,
      dmarc_verdict(Holding("dmarc_record", <<dmarc_ok, dmarc_trail>>)).ret.detail,
      dmarc_verdict(Holding("dmarc_record", <<dmarc_sp_first>>)).ret.detail>>

\* the verdict v on n candidates of one kind, whose diagnostics are mine:
\* a failure for no candidate and for several, with that case's diagnostic,
\* which is not the diagnostic of another case nor one of another kind
CountVerdict(v, n, mine, others) ==
    /\ n = 0 => ~v.ok /\ v.detail = mine[1] /\ v.detail \notin {mine[2], mine[3]}
    /\ n >= 2 => ~v.ok /\ v.detail = mine[2] /\ v.detail \notin {mine[1], mine[3]}
    /\ ~v.ok => v.detail \notin others

\* C8: for SPF and for DMARC, no candidate gives the "not found" failure and
\* two or more the "multiple records" failure; the three diagnostics of a
\* kind differ, and none is a diagnostic of another kind.
C8_CountDiagnostics ==
    /\ op = "validate_spf" /\ raised = "none" =>
          CountVerdict(ret, Len(self.spf_record.recs), SpfDiagnostics,
                       Range(DkimDiagnostics) \cup Range(DmarcDiagnostics))
    /\ op = "validate_dmarc" /\ raised = "none" =>
          CountVerdict(ret, Len(self.dmarc_record.recs), DmarcDiagnostics,
                       Range(SpfDiagnostics) \cup Range(DkimDiagnostics))

=============================================================================
